---- MODULE Spec2Model ----
(***************************************************************************)
(* A model of S3Uploader (src/main.py): a scheduler that fires one         *)
(* backup_job per configured folder; each job lists the folder, filters    *)
(* the entries by suffix, checks each candidate's dated key with           *)
(* head_object and, when absent, uploads the file in 5 MiB parts through   *)
(* a multipart session.  The object store, the file system and the clock   *)
(* are the environment; every store call may fail.                         *)
(***************************************************************************)
EXTENDS Integers, Sequences, FiniteSets, TLC

VARIABLES
    config,      \* config['backup_folders']: one entry per scheduled job
    scheduler,   \* state of the BackgroundScheduler
    job,         \* per folder entry: the locals of its backup_job run
    fs,          \* the local file system: folder -> (entry name -> size)
    now,         \* the clock, in days since the first day
    uploads,     \* the store's multipart sessions, indexed by UploadId
    completions, \* the store's successful complete_multipart_upload calls
    events       \* disturbances so far: failed store calls, midnights,
                 \* deletions and modifications of local files

vars == <<config, scheduler, job, fs, now, uploads, completions, events>>

(***************************************************************************)
(* Bounds of the exploration.                                              *)
(***************************************************************************)
MaxFires == 2       \* trigger fires, over all folder entries
MaxEvents == 2      \* disturbances: failed store calls, midnights, file changes
MaxParts == 2       \* largest file at the start, in parts

(***************************************************************************)
(* Program constants and pure functions.                                   *)
(***************************************************************************)
part_size == 5 * 1024 * 1024

Min(a, b) == IF a < b THEN a ELSE b

\* str.endswith
EndsWith(s, suffix) ==
    /\ Len(suffix) <= Len(s)
    /\ SubSeq(s, Len(s) - Len(suffix) + 1, Len(s)) = suffix

Range(seq) == {seq[n] : n \in DOMAIN seq}

\* is_included with `return True` as its last line
is_included_default_true(filename, include_patterns) == TRUE

is_included(filename, include_patterns) ==
    \E n \in DOMAIN include_patterns : EndsWith(filename, include_patterns[n])

\* config.get('include', [])
IncludePatterns(cfg) ==
    IF "include" \in DOMAIN cfg THEN cfg.include ELSE <<>>

\* The calendar day `t` days after 2024-02-29 (t <= 31).
DateOf(t) ==
    IF t = 0 THEN [year |-> 2024, month |-> 2, day |-> 29]
             ELSE [year |-> 2024, month |-> 3, day |-> t]

\* %-m and %-d: no padding
Pad2Unpadded(n) == ToString(n)

\* zero-padded decimal, as %m and %d print it
Pad2(n) == IF n < 10 THEN "0" \o ToString(n) ELSE ToString(n)

\* strftime('%Y-%m-%d')
strftime(d) == ToString(d.year) \o "-" \o Pad2(d.month) \o "-" \o Pad2(d.day)

\* the date taken once, when the program starts
get_current_date_at_start(t) == strftime(DateOf(0))

\* datetime.now().strftime('%Y-%m-%d') at clock t
get_current_date(t) == strftime(DateOf(t))

\* fn = config["prefix"] + "/" + current_date + "/" + filename
DestKey(prefix, current_date, filename) ==
    prefix \o "/" \o current_date \o "/" \o filename

\* only a 404 means absent: any other error counts as present
check_file_existence_only_404(response) == response # "404"

\* True whatever head_object did
check_file_existence_always(response) == TRUE

\* check_file_existence: True iff head_object returned without raising
check_file_existence(response) == response = "200"

\* the upload attempted without regard to the check
ShouldUploadAlways(exists) == TRUE

\* `if not check_file_existence(...)`: the upload is attempted
ShouldUpload(exists) == ~exists

\* whole chunks only: the remainder of the file is never read
ReadLenWholeChunks(size, offset) ==
    IF size - offset >= part_size THEN part_size ELSE 0

\* file.read(part_size // 2): chunks of half the part size
ReadLenHalfChunks(size, offset) == Min(part_size \div 2, size - offset)

\* The number of bytes file.read(part_size) returns at position `offset`
ReadLen(size, offset) == Min(part_size, size - offset)

\* part_number += 2
NextPartNumberSkips(part_number) == part_number + 2

\* part_number += 1
NextPartNumber(part_number) == part_number + 1

\* `except FileNotFoundError` alone
UploadCatchesFileOnly(exc) == exc = "FileNotFoundError"

\* `except NoCredentialsError` alone
UploadCatchesAuthOnly(exc) == exc = "NoCredentialsError"

\* the except clauses of upload_large_file_to_s3
UploadCatches(exc) == exc \in {"FileNotFoundError", "NoCredentialsError"}

\* the exceptions that derive from Exception
ExceptionClasses ==
    {"KeyError", "FileNotFoundError", "NoCredentialsError", "ClientError"}

\* a handler for the errors of the local files and the credentials only
JobCatchesSome(exc) == exc \in {"FileNotFoundError", "NoCredentialsError"}

\* `except Exception` of backup_job
JobCatches(exc) == exc \in ExceptionClasses

(***************************************************************************)
(* Inputs: configurations and file systems.                                *)
(***************************************************************************)
cfgData == [folder |-> "/data", s3_bucket_name |-> "bk", prefix |-> "db",
            include |-> <<".sql">>]
cfgLogs == [folder |-> "/logs", s3_bucket_name |-> "bk", prefix |-> "lg",
            include |-> <<".log", ".gz">>]
cfgNoFolder == [s3_bucket_name |-> "bk", prefix |-> "db", include |-> <<".sql">>]
cfgNoBucket == [folder |-> "/data", prefix |-> "db", include |-> <<".sql">>]
cfgNoPrefix == [folder |-> "/data", s3_bucket_name |-> "bk", include |-> <<".sql">>]
cfgNoInclude == [folder |-> "/data", s3_bucket_name |-> "bk", prefix |-> "db"]
cfgEmptyInclude == [folder |-> "/data", s3_bucket_name |-> "bk", prefix |-> "db",
                    include |-> <<>>]
cfgGone == [folder |-> "/gone", s3_bucket_name |-> "bk", prefix |-> "db",
            include |-> <<".sql">>]

\* File sizes of at most MaxParts parts: multiples of part_size and
\* sizes with a remainder.
FileSizes ==
    {s \in {k * part_size + r : k \in 0..MaxParts, r \in {0, 3}} :
        s <= MaxParts * part_size}

\* "/data" holds a.sql of `sizeA` bytes, a file that no pattern of cfgData
\* matches and, when `withB`, a second .sql file; "/logs" holds one log.
FsOf(sizeA, withB) ==
    [p \in {"/data", "/logs"} |->
        IF p = "/data"
        THEN [n \in {"a.sql", "y.tmp"} \cup (IF withB THEN {"b.sql"} ELSE {}) |->
                 IF n = "a.sql" THEN sizeA ELSE IF n = "b.sql" THEN 3 ELSE 1]
        ELSE [n \in {"x.log", "n.txt"} |-> 3]]

\* The file the environment deletes or appends to.
Volatile == <<"/data", "a.sql">>

(***************************************************************************)
(* State of a job and of the store.                                        *)
(***************************************************************************)
\* The locals of a job that has not run yet.  `handle` is the size of the
\* file while it is open (-1 when closed), `opened` the size it had when
\* it was last opened for the current file.
IdleJob ==
    [pc |-> "idle", run |-> 0, fired |-> 0, error |-> "",
     files_to_backup |-> <<>>, idx |-> 0, filename |-> "", current_date |-> "",
     day |-> 0, fn |-> "", file_size |-> 0, upload_id |-> 0, parts |-> <<>>,
     part_number |-> 0, offset |-> 0, handle |-> -1, opened |-> -1,
     calls |-> <<>>, outcomes |-> <<>>]

Jobs == DOMAIN config

\* One store call as the job made it, and how it ended.
Call(op, j, cfg, body, res) ==
    [op |-> op, file |-> j.idx, Bucket |-> cfg.s3_bucket_name, Key |-> j.fn,
     UploadId |-> j.upload_id, PartNumber |-> j.part_number, Body |-> body,
     Offset |-> j.offset, FileSize |-> j.opened, Parts |-> j.parts,
     day |-> j.day, res |-> res]

\* The tag the store returns for a part (a digest of what it received).
ETagOf(id, part_number, body) == <<id, part_number, body>>

ObjectExists(bucket, key) ==
    \E c \in completions : c.Bucket = bucket /\ c.Key = key

\* What a store call may answer: success, or a failure while the budget lasts.
StoreOutcomes ==
    {"ok"} \cup (IF events < MaxEvents THEN {"ClientError", "NoCredentialsError"} ELSE {})

Fault(out) == IF out = "ok" THEN 0 ELSE 1

\* complete_multipart_upload is accepted for an open session and a
\* non-empty list of its parts, in ascending order, with their tags.
ValidCompletion(id, parts) ==
    /\ id \in DOMAIN uploads
    /\ uploads[id].open
    /\ Len(parts) > 0
    /\ \A n \in DOMAIN parts :
          /\ n > 1 => parts[n - 1].PartNumber < parts[n].PartNumber
          /\ parts[n].PartNumber \in DOMAIN uploads[id].Parts
          /\ uploads[id].Parts[parts[n].PartNumber] = parts[n].ETag

RECURSIVE SumBodies(_)
SumBodies(parts) ==
    IF parts = <<>> THEN 0
    ELSE parts[1].ETag[3] + SumBodies(Tail(parts))

(***************************************************************************)
(* Exceptions.                                                             *)
(***************************************************************************)
\* An exception reaches backup_job's handler: it is logged and the job
\* returns; one the handler does not catch leaves the job function.
JobRaise(j, exc) ==
    IF JobCatches(exc) THEN [j EXCEPT !.pc = "done", !.error = exc, !.handle = -1]
                       ELSE [j EXCEPT !.pc = "raised", !.error = exc, !.handle = -1]

\* upload_large_file_to_s3 returns to the loop of backup_job.
UploadReturn(j, outcome) ==
    [j EXCEPT !.pc = "loop", !.idx = @ + 1, !.handle = -1,
              !.outcomes = Append(@, [file |-> j.idx, result |-> outcome])]

\* An upload that tries the part again when upload_part raises.
UploadRaiseRetriesPart(j, exc) ==
    IF j.pc = "read" THEN j
    ELSE IF UploadCatches(exc)
    THEN UploadReturn(j, exc)
    ELSE JobRaise([j EXCEPT !.outcomes =
                      Append(@, [file |-> j.idx, result |-> "raised"])], exc)

\* An exception inside the try block of upload_large_file_to_s3.
UploadRaise(j, exc) ==
    IF UploadCatches(exc)
    THEN UploadReturn(j, exc)
    ELSE JobRaise([j EXCEPT !.outcomes =
                      Append(@, [file |-> j.idx, result |-> "raised"])], exc)

(***************************************************************************)
(* The scheduler (__main__).                                               *)
(***************************************************************************)
\* scheduler.start()
Start ==
    /\ scheduler = "stopped"
    /\ scheduler' = "running"
    /\ UNCHANGED <<config, job, fs, now, uploads, completions, events>>

\* A shutdown that abandons the jobs in progress.
ShutdownAbandons ==
    /\ scheduler = "running"
    /\ scheduler' = "shutdown"
    /\ job' = [i \in DOMAIN job |->
                  IF job[i].pc \in {"idle", "done"} THEN job[i]
                  ELSE [job[i] EXCEPT !.pc = "done", !.handle = -1]]
    /\ UNCHANGED <<config, fs, now, uploads, completions, events>>

\* KeyboardInterrupt: scheduler.shutdown()
Shutdown ==
    /\ scheduler = "running"
    /\ scheduler' = "shutdown"
    /\ UNCHANGED <<config, job, fs, now, uploads, completions, events>>

\* The fires so far, over all folder entries.
RECURSIVE TotalRuns(_)
TotalRuns(js) ==
    IF js = <<>> THEN 0 ELSE js[1].run + TotalRuns(Tail(js))

\* One job at a time, over all folder entries.
CanDispatchExclusive(i) == \A k \in DOMAIN job : job[k].pc \in {"idle", "done"}

\* A job's trigger can be dispatched when no instance of that job is running.
CanDispatch(i) == job[i].pc \in {"idle", "done"}

\* The trigger of folder entry i fires: backup_job(folder_config, s3) starts.
Fire(i) ==
    /\ scheduler = "running"
    /\ CanDispatch(i)
    /\ TotalRuns(job) < MaxFires
    /\ job' = [job EXCEPT ![i] =
                  [IdleJob EXCEPT !.pc = "start", !.run = job[i].run + 1,
                                  !.fired = now]]
    /\ UNCHANGED <<config, scheduler, fs, now, uploads, completions, events>>

(***************************************************************************)
(* backup_job.                                                             *)
(***************************************************************************)
\* All orders in which os.listdir may return the entries of S.
Orderings(S) ==
    {s \in [1..Cardinality(S) -> S] : Range(s) = S}

\* config['folder'], config['s3_bucket_name'], os.listdir and the filter
ListDir(i) ==
    LET j == job[i]
        cfg == config[i]
    IN  /\ j.pc = "start"
        /\ IF "folder" \notin DOMAIN cfg \/ "s3_bucket_name" \notin DOMAIN cfg
           THEN job' = [job EXCEPT ![i] = JobRaise(j, "KeyError")]
           ELSE IF cfg.folder \notin DOMAIN fs
           THEN job' = [job EXCEPT ![i] = JobRaise(j, "FileNotFoundError")]
           ELSE \E order \in Orderings({f \in DOMAIN fs[cfg.folder] :
                                          is_included(f, IncludePatterns(cfg))}) :
                   job' = [job EXCEPT ![i] =
                              [j EXCEPT !.pc = "loop", !.idx = 1,
                                        !.files_to_backup = order]]
        /\ UNCHANGED <<config, scheduler, fs, now, uploads, completions, events>>

\* The loop without the existence check: every candidate is uploaded.
LoopStepNoCheck(i) ==
    LET j == job[i]
        cfg == config[i]
    IN  /\ j.pc = "loop"
        /\ IF j.idx > Len(j.files_to_backup)
           THEN job' = [job EXCEPT ![i] = [j EXCEPT !.pc = "done"]]
           ELSE IF "prefix" \notin DOMAIN cfg
           THEN job' = [job EXCEPT ![i] = JobRaise(j, "KeyError")]
           ELSE job' = [job EXCEPT ![i] =
                           [j EXCEPT !.pc = "getsize",
                                     !.filename = j.files_to_backup[j.idx],
                                     !.day = now,
                                     !.current_date = get_current_date(now),
                                     !.fn = DestKey(cfg.prefix, get_current_date(now),
                                                    j.files_to_backup[j.idx]),
                                     !.upload_id = 0, !.parts = <<>>,
                                     !.part_number = 0, !.offset = 0,
                                     !.file_size = 0, !.opened = -1]]
        /\ UNCHANGED <<config, scheduler, fs, now, uploads, completions, events>>

\* `for filename in files_to_backup`: the next file's key, or the return
LoopStep(i) ==
    LET j == job[i]
        cfg == config[i]
    IN  /\ j.pc = "loop"
        /\ IF j.idx > Len(j.files_to_backup)
           THEN job' = [job EXCEPT ![i] = [j EXCEPT !.pc = "done"]]
           ELSE IF "prefix" \notin DOMAIN cfg
           THEN job' = [job EXCEPT ![i] = JobRaise(j, "KeyError")]
           ELSE job' = [job EXCEPT ![i] =
                           [j EXCEPT !.pc = "head",
                                     !.filename = j.files_to_backup[j.idx],
                                     !.day = now,
                                     !.current_date = get_current_date(now),
                                     !.fn = DestKey(cfg.prefix, get_current_date(now),
                                                    j.files_to_backup[j.idx]),
                                     !.upload_id = 0, !.parts = <<>>,
                                     !.part_number = 0, !.offset = 0,
                                     !.file_size = 0, !.opened = -1]]
        /\ UNCHANGED <<config, scheduler, fs, now, uploads, completions, events>>

\* check_file_existence(s3, s3_bucket_name, fn) and the decision to upload
HeadObject(i) ==
    LET j == job[i]
        cfg == config[i]
    IN  /\ j.pc = "head"
        /\ \E out \in StoreOutcomes :
              LET response == IF out # "ok" THEN out
                              ELSE IF ObjectExists(cfg.s3_bucket_name, j.fn)
                                   THEN "200" ELSE "404"
                  exists == check_file_existence(response)
                  logged == [j EXCEPT !.calls =
                                Append(@, Call("head_object", j, cfg, 0, response))]
              IN  /\ job' = [job EXCEPT ![i] =
                                IF ShouldUpload(exists)
                                THEN [logged EXCEPT !.pc = "getsize"]
                                ELSE UploadReturn(logged, "skipped")]
                  /\ events' = events + Fault(out)
        /\ UNCHANGED <<config, scheduler, fs, now, uploads, completions>>

\* os.path.getsize(local_file_path), before the try block
GetSize(i) ==
    LET j == job[i]
        cfg == config[i]
    IN  /\ j.pc = "getsize"
        /\ job' = [job EXCEPT ![i] =
                      IF j.filename \in DOMAIN fs[cfg.folder]
                      THEN [j EXCEPT !.pc = "create",
                                     !.file_size = fs[cfg.folder][j.filename]]
                      ELSE JobRaise([j EXCEPT !.outcomes =
                                        Append(@, [file |-> j.idx, result |-> "raised"])],
                                    "FileNotFoundError")]
        /\ UNCHANGED <<config, scheduler, fs, now, uploads, completions, events>>

(***************************************************************************)
(* upload_large_file_to_s3, inside its try block.                          *)
(***************************************************************************)
\* An upload id kept in one place for all uploads: every upload uses the
\* id of the first session.
CreateMultipartUploadSharedId(i) ==
    LET j == job[i]
        cfg == config[i]
        id == Len(uploads) + 1
    IN  /\ j.pc = "create"
        /\ \E out \in StoreOutcomes :
              /\ events' = events + Fault(out)
              /\ IF out = "ok"
                 THEN /\ uploads' = Append(uploads,
                                       [Bucket |-> cfg.s3_bucket_name, Key |-> j.fn,
                                        Parts |-> <<>>, open |-> TRUE])
                      /\ job' = [job EXCEPT ![i] =
                                    [j EXCEPT !.pc = "open", !.upload_id = 1,
                                              !.parts = <<>>, !.part_number = 1,
                                              !.calls = Append(@,
                                                  Call("create_multipart_upload",
                                                       [j EXCEPT !.upload_id = id],
                                                       cfg, 0, "ok"))]]
                 ELSE /\ uploads' = uploads
                      /\ job' = [job EXCEPT ![i] =
                                    UploadRaise([j EXCEPT !.calls = Append(@,
                                                    Call("create_multipart_upload",
                                                         j, cfg, 0, out))], out)]
        /\ UNCHANGED <<config, scheduler, fs, now, completions>>

\* s3.create_multipart_upload; parts = []; part_number = 1
CreateMultipartUpload(i) ==
    LET j == job[i]
        cfg == config[i]
        id == Len(uploads) + 1
    IN  /\ j.pc = "create"
        /\ \E out \in StoreOutcomes :
              /\ events' = events + Fault(out)
              /\ IF out = "ok"
                 THEN /\ uploads' = Append(uploads,
                                       [Bucket |-> cfg.s3_bucket_name, Key |-> j.fn,
                                        Parts |-> <<>>, open |-> TRUE])
                      /\ job' = [job EXCEPT ![i] =
                                    [j EXCEPT !.pc = "open", !.upload_id = id,
                                              !.parts = <<>>, !.part_number = 1,
                                              !.calls = Append(@,
                                                  Call("create_multipart_upload",
                                                       [j EXCEPT !.upload_id = id],
                                                       cfg, 0, "ok"))]]
                 ELSE /\ uploads' = uploads
                      /\ job' = [job EXCEPT ![i] =
                                    UploadRaise([j EXCEPT !.calls = Append(@,
                                                    Call("create_multipart_upload",
                                                         j, cfg, 0, out))], out)]
        /\ UNCHANGED <<config, scheduler, fs, now, completions>>

\* open(local_file_path, 'rb')
OpenFile(i) ==
    LET j == job[i]
        cfg == config[i]
    IN  /\ j.pc = "open"
        /\ job' = [job EXCEPT ![i] =
                      IF j.filename \in DOMAIN fs[cfg.folder]
                      THEN [j EXCEPT !.pc = "read", !.offset = 0,
                                     !.handle = fs[cfg.folder][j.filename],
                                     !.opened = fs[cfg.folder][j.filename]]
                      ELSE UploadRaise(j, "FileNotFoundError")]
        /\ UNCHANGED <<config, scheduler, fs, now, uploads, completions, events>>

\* One iteration of the while loop: file.read(part_size), the break on
\* no data, s3.upload_part, parts.append, part_number += 1.
UploadPart(i) ==
    LET j == job[i]
        cfg == config[i]
        data == ReadLen(j.handle, j.offset)
        tag == ETagOf(j.upload_id, j.part_number, data)
    IN  /\ j.pc = "read"
        /\ IF data <= 0
           THEN /\ job' = [job EXCEPT ![i] = [j EXCEPT !.pc = "complete", !.handle = -1]]
                /\ UNCHANGED <<uploads, events>>
           ELSE \E out \in StoreOutcomes :
                   LET logged == [j EXCEPT !.calls =
                                     Append(@, Call("upload_part", j, cfg, data, out))]
                   IN  /\ events' = events + Fault(out)
                       /\ IF out = "ok"
                          THEN /\ uploads' =
                                     [uploads EXCEPT ![j.upload_id].Parts =
                                         [n \in DOMAIN @ \cup {j.part_number} |->
                                             IF n = j.part_number THEN tag ELSE @[n]]]
                               /\ job' = [job EXCEPT ![i] =
                                     [logged EXCEPT
                                         !.parts = Append(@, [PartNumber |-> j.part_number,
                                                              ETag |-> tag]),
                                         !.part_number = NextPartNumber(j.part_number),
                                         !.offset = j.offset + data]]
                          ELSE /\ uploads' = uploads
                               /\ job' = [job EXCEPT ![i] = UploadRaise(logged, out)]
        /\ UNCHANGED <<config, scheduler, fs, now, completions>>

\* s3.complete_multipart_upload(..., MultipartUpload={'Parts': parts})
CompleteMultipartUpload(i) ==
    LET j == job[i]
        cfg == config[i]
    IN  /\ j.pc = "complete"
        /\ \E out \in StoreOutcomes :
              LET res == IF out = "ok" /\ ~ValidCompletion(j.upload_id, j.parts)
                         THEN "ClientError" ELSE out
                  logged == [j EXCEPT !.calls =
                                Append(@, Call("complete_multipart_upload",
                                               j, cfg, 0, res))]
              IN  /\ events' = events + Fault(out)
                  /\ IF res = "ok"
                     THEN /\ completions' = completions \cup
                                {[Bucket |-> cfg.s3_bucket_name, Key |-> j.fn,
                                  UploadId |-> j.upload_id,
                                  Size |-> SumBodies(j.parts)]}
                          /\ uploads' = [uploads EXCEPT ![j.upload_id].open = FALSE]
                          /\ job' = [job EXCEPT ![i] = UploadReturn(logged, "uploaded")]
                     ELSE /\ UNCHANGED <<completions, uploads>>
                          /\ job' = [job EXCEPT ![i] = UploadRaise(logged, res)]
        /\ UNCHANGED <<config, scheduler, fs, now>>

(***************************************************************************)
(* The environment: the clock and the local files.                         *)
(***************************************************************************)
\* Midnight passes.
Tick ==
    /\ events < MaxEvents
    /\ now' = now + 1
    /\ events' = events + 1
    /\ UNCHANGED <<config, scheduler, job, fs, uploads, completions>>

\* The volatile file is removed.
DeleteFile ==
    LET dir == Volatile[1]
        name == Volatile[2]
    IN  /\ events < MaxEvents
        /\ name \in DOMAIN fs[dir]
        /\ fs' = [fs EXCEPT ![dir] = [n \in DOMAIN @ \ {name} |-> @[n]]]
        /\ events' = events + 1
        /\ UNCHANGED <<config, scheduler, job, now, uploads, completions>>

\* The volatile file changes (a byte is appended) while no job reads it.
AppendFile ==
    LET dir == Volatile[1]
        name == Volatile[2]
    IN  /\ events < MaxEvents
        /\ name \in DOMAIN fs[dir]
        /\ \A i \in Jobs :
              job[i].handle >= 0 =>
                  ~(config[i].folder = dir /\ job[i].filename = name)
        /\ fs' = [fs EXCEPT ![dir][name] = @ + 1]
        /\ events' = events + 1
        /\ UNCHANGED <<config, scheduler, job, now, uploads, completions>>

(***************************************************************************)
(* Specification.                                                          *)
(***************************************************************************)
\* Two folder entries: the same folder twice, or two different folders.
TwoFolderConfigs == {<<cfgData, cfgData>>, <<cfgData, cfgLogs>>}

\* One folder entry, complete or with a field or the folder missing.
OneFolderConfigs ==
    {<<c>> : c \in {cfgData, cfgNoFolder, cfgNoBucket, cfgNoPrefix,
                    cfgNoInclude, cfgEmptyInclude, cfgGone}}

\* The state after the scheduler is constructed and the jobs are added.
InitWith(configs, sizes, withB) ==
    /\ config \in configs
    /\ fs \in {FsOf(s, withB) : s \in sizes}
    /\ scheduler = "stopped"
    /\ job = [i \in DOMAIN config |-> IdleJob]
    /\ now = 0
    /\ uploads = <<>>
    /\ completions = {}
    /\ events = 0

Init ==
    \/ InitWith(TwoFolderConfigs, {3}, FALSE)
    \/ InitWith(OneFolderConfigs, FileSizes, TRUE)

\* One step of the backup_job of folder entry i.
JobStep(i) ==
    \/ ListDir(i)
    \/ LoopStep(i)
    \/ HeadObject(i)
    \/ GetSize(i)
    \/ CreateMultipartUpload(i)
    \/ OpenFile(i)
    \/ UploadPart(i)
    \/ CompleteMultipartUpload(i)

Next ==
    \/ Start
    \/ Shutdown
    \/ \E i \in Jobs : Fire(i)
    \/ \E i \in Jobs : JobStep(i)
    \/ Tick
    \/ DeleteFile
    \/ AppendFile

Spec == Init /\ [][Next]_vars

\* Two folders on their own triggers, every thread scheduled fairly.
InitTwo == InitWith({<<cfgData, cfgLogs>>}, {3}, FALSE)

FairSpec ==
    /\ InitTwo
    /\ [][Next]_vars
    /\ \A i \in 1..2 : WF_vars(JobStep(i))

\* One folder of two candidates, its job scheduled fairly.
InitOne == InitWith({<<cfgData>>}, FileSizes, TRUE)

RetrySpec ==
    /\ InitOne
    /\ [][Next]_vars
    /\ WF_vars(JobStep(1))

TypeOK ==
    /\ scheduler \in {"stopped", "running", "shutdown"}
    /\ now \in 0..MaxEvents
    /\ events \in 0..MaxEvents
    /\ TotalRuns(job) \in 0..MaxFires

(***************************************************************************)
(* Properties.                                                             *)
(***************************************************************************)
UploadOps == {"create_multipart_upload", "upload_part", "complete_multipart_upload"}

\* The upload_part calls a job made for the file of call p, before p.
PartCallsBefore(calls, p) ==
    {q \in 1..(p - 1) : calls[q].op = "upload_part" /\ calls[q].file = calls[p].file}

\* The upload_part calls a job made for the file of call p.
PartCallsOf(calls, p) ==
    {q \in DOMAIN calls : calls[q].op = "upload_part" /\ calls[q].file = calls[p].file}

\* C1: for every (bucket, key), complete_multipart_upload succeeds at most
\* once, over all runs of all folder entries.
C1_AtMostOneCompletionPerKey ==
    \A c1, c2 \in completions :
        (c1.Bucket = c2.Bucket /\ c1.Key = c2.Key) => c1 = c2

\* C2: a file whose head_object reported an existing object gets no
\* create_multipart_upload, upload_part or complete_multipart_upload call
\* in that run, whatever the file holds now.
C2_ExistingKeyNotUploaded ==
    \A i \in Jobs :
        LET calls == job[i].calls
        IN  \A p \in DOMAIN calls :
                (calls[p].op = "head_object" /\ calls[p].res = "200") =>
                    \A q \in DOMAIN calls :
                        calls[q].file = calls[p].file => calls[q].op \notin UploadOps

\* A finished run that skipped a file whose content is no longer what the
\* object at its key was made from.
C2_Witness ==
    \E i \in Jobs :
        LET calls == job[i].calls
        IN  /\ job[i].pc = "done"
            /\ \E p \in DOMAIN calls :
                  /\ calls[p].op = "head_object" /\ calls[p].res = "200"
                  /\ job[i].files_to_backup[calls[p].file] \in DOMAIN fs[config[i].folder]
                  /\ \E c \in completions :
                        /\ c.Key = calls[p].Key
                        /\ c.Size # fs[config[i].folder][job[i].files_to_backup[calls[p].file]]

\* C3: a run in which the upload of one file failed still checks every
\* candidate file of the run.
C3_FailureDoesNotAbortRun ==
    \A i \in Jobs :
        (/\ job[i].pc = "done"
         /\ \E n \in DOMAIN job[i].outcomes :
               job[i].outcomes[n].result \notin {"uploaded", "skipped"})
        => \A f \in DOMAIN job[i].files_to_backup :
              \E p \in DOMAIN job[i].calls :
                  job[i].calls[p].op = "head_object" /\ job[i].calls[p].file = f

\* C4: after upload_part fails on a part, the upload of that file has
\* failed, the job makes no further call for that file (no later part, no
\* completion) and the session is never completed.
C4_PartFailureEndsUpload ==
    \A i \in Jobs :
        LET calls == job[i].calls
        IN  \A p \in DOMAIN calls :
                (calls[p].op = "upload_part" /\ calls[p].res # "ok") =>
                    /\ \A q \in DOMAIN calls : q > p => calls[q].file # calls[p].file
                    /\ \A c \in completions : c.UploadId # calls[p].UploadId
                    /\ \E n \in DOMAIN job[i].outcomes :
                          /\ job[i].outcomes[n].file = calls[p].file
                          /\ job[i].outcomes[n].result \in {"raised", "NoCredentialsError"}

\* upload_part failed on a part that is not the last one of its file.
C4_Witness ==
    \E i \in Jobs :
        \E p \in DOMAIN job[i].calls :
            LET c == job[i].calls[p]
            IN  /\ c.op = "upload_part" /\ c.res # "ok"
                /\ c.Offset + c.Body < c.FileSize

\* C5: the k-th upload_part call of an upload carries part number k and a
\* larger file offset than the calls before it; the list given to
\* complete_multipart_upload holds part numbers 1, 2, ... in order.
C5_PartsInOrder ==
    \A i \in Jobs :
        LET calls == job[i].calls
        IN  \A p \in DOMAIN calls :
                /\ calls[p].op = "upload_part" =>
                      /\ calls[p].PartNumber = Cardinality(PartCallsBefore(calls, p)) + 1
                      /\ \A q \in PartCallsBefore(calls, p) :
                            calls[q].Offset < calls[p].Offset
                /\ calls[p].op = "complete_multipart_upload" =>
                      \A n \in DOMAIN calls[p].Parts : calls[p].Parts[n].PartNumber = n

\* A completion call with at least two parts.
C5_Witness ==
    \E i \in Jobs :
        \E p \in DOMAIN job[i].calls :
            /\ job[i].calls[p].op = "complete_multipart_upload"
            /\ Len(job[i].calls[p].Parts) >= 2

\* C6: a completed upload of a file of S bytes sent parts that tile the
\* file: part k starts at offset (k-1)*part_size, every part but the last
\* has part_size bytes, the last has S mod part_size bytes (part_size when
\* that is 0), and the lengths sum to S.
C6_PartsCoverFile ==
    \A i \in Jobs :
        LET calls == job[i].calls
        IN  \A p \in DOMAIN calls :
                (calls[p].op = "complete_multipart_upload" /\ calls[p].res = "ok") =>
                    LET sent == PartCallsOf(calls, p)
                        count == Cardinality(sent)
                    IN  \A q \in sent :
                            LET S == calls[q].FileSize
                                k == calls[q].PartNumber
                            IN  /\ SumBodies(calls[p].Parts) = S
                                /\ calls[q].Offset = (k - 1) * part_size
                                /\ k < count => calls[q].Body = part_size
                                /\ k = count =>
                                      calls[q].Body = IF S % part_size = 0
                                                      THEN part_size
                                                      ELSE S % part_size
                                /\ \E c \in completions :
                                      c.UploadId = calls[p].UploadId /\ c.Size = S

\* A completed upload of a file of one whole part and a remainder.
C6_Witness ==
    \E i \in Jobs :
        \E p \in DOMAIN job[i].calls :
            /\ job[i].calls[p].op = "complete_multipart_upload"
            /\ job[i].calls[p].res = "ok"
            /\ Len(job[i].calls[p].Parts) = 2
            /\ SumBodies(job[i].calls[p].Parts) = part_size + 3

\* C7: no exception leaves backup_job.
C7_JobNeverRaises ==
    \A i \in Jobs : job[i].pc # "raised"

\* A job that returned after a store call raised an error that
\* upload_large_file_to_s3 does not handle.
C7_Witness ==
    \E i \in Jobs : job[i].pc = "done" /\ job[i].error = "ClientError"

AllNames == {"a.sql", "b.sql", "y.tmp", "x.log", "n.txt"}

\* The names that end with none of the configured suffixes.
NotIncluded(cfg) ==
    {n \in AllNames :
        ~\E k \in DOMAIN IncludePatterns(cfg) :
            \E m \in 0..Len(n) : n = SubSeq(n, 1, m) \o IncludePatterns(cfg)[k]}

ExpectedDates ==
    <<"2024-02-29", "2024-03-01", "2024-03-02", "2024-03-03", "2024-03-04">>

\* C9: every store call of a file carries the key prefix/D/filename, D
\* being a day of the job's execution (the day the file's processing
\* began), and all calls of a file carry the same key.
C9_DestinationKey ==
    \A i \in Jobs :
        LET calls == job[i].calls
        IN  \A p \in DOMAIN calls :
                /\ calls[p].Key = config[i].prefix \o "/"
                                    \o ExpectedDates[calls[p].day + 1] \o "/"
                                    \o job[i].files_to_backup[calls[p].file]
                /\ job[i].fired <= calls[p].day /\ calls[p].day <= now
                /\ \A q \in DOMAIN calls :
                      calls[q].file = calls[p].file => calls[q].Key = calls[p].Key

\* An upload completed under the key db/2024-03-01/a.sql.
C9_Witness ==
    \E i \in Jobs :
        \E p \in DOMAIN job[i].calls :
            /\ job[i].calls[p].op = "complete_multipart_upload"
            /\ job[i].calls[p].res = "ok"
            /\ job[i].calls[p].Key = "db/2024-03-01/a.sql"
            /\ \E q \in DOMAIN job[i].calls :
                  job[i].calls[q].op = "head_object" /\ job[i].calls[q].Key = "db/2024-03-01/a.sql"

\* Both folders' jobs have just been started by fires at the same instant.
BothStarted == job[1].pc = "start" /\ job[2].pc = "start"

\* C10: a job in progress never disables the dispatch of another folder's
\* fire, and when two folders' triggers fire at the same instant each of
\* the two runs returns.
C10_ConcurrentJobsComplete ==
    /\ [](\A i \in 1..2 :
             (/\ scheduler = "running"
              /\ job[i].pc \in {"idle", "done"}
              /\ TotalRuns(job) < MaxFires) => ENABLED Fire(i))
    /\ \A i \in 1..2 : \A r \in 1..MaxFires :
          (BothStarted /\ job[i].run = r) ~> (job[i].pc = "done" /\ job[i].run = r)

\* Both jobs have returned, each after uploading its folder's file; the
\* second folder's session was initiated before the first folder's.
C10_Witness ==
    /\ job[1].pc = "done" /\ job[2].pc = "done"
    /\ \E n \in DOMAIN job[1].outcomes : job[1].outcomes[n].result = "uploaded"
    /\ \E n \in DOMAIN job[2].outcomes : job[2].outcomes[n].result = "uploaded"
    /\ job[1].upload_id = 2 /\ job[2].upload_id = 1
    /\ \E c \in completions : c.UploadId = 2 /\ c.Key = job[1].fn

\* The program counters of a job inside upload_large_file_to_s3.
InUpload == {"getsize", "create", "open", "read", "complete"}

\* How an upload can end: completed, or failed on its own.
UploadEndings == {"uploaded", "raised", "FileNotFoundError", "NoCredentialsError"}

\* C11: the scheduler only moves stopped -> running -> shutdown; a job is
\* dispatched only while it is running, and then every folder's trigger
\* can fire; a stop interrupts no upload: a job leaves an upload only by
\* the upload's own ending, its steps stay enabled after the stop and the
\* run in progress returns.
C11_SchedulerLifecycle ==
    /\ [][scheduler' # scheduler =>
             <<scheduler, scheduler'>> \in {<<"stopped", "running">>,
                                            <<"running", "shutdown">>}]_vars
    /\ [][\A i \in 1..2 :
             job'[i].run # job[i].run =>
                 scheduler = "running" /\ scheduler' = "running"]_vars
    /\ [](\A i \in 1..2 :
             (/\ scheduler = "running"
              /\ job[i].pc \in {"idle", "done"}
              /\ TotalRuns(job) < MaxFires) => ENABLED Fire(i))
    /\ [][\A i \in 1..2 :
             (job[i].pc \in InUpload /\ job'[i].pc \notin InUpload) =>
                 /\ scheduler' = scheduler
                 /\ Len(job'[i].outcomes) = Len(job[i].outcomes) + 1
                 /\ job'[i].outcomes[Len(job'[i].outcomes)].file = job[i].idx
                 /\ job'[i].outcomes[Len(job'[i].outcomes)].result \in UploadEndings]_vars
    /\ [](\A i \in 1..2 :
             (scheduler = "shutdown" /\ job[i].pc \notin {"idle", "done"})
                 => ENABLED JobStep(i))
    /\ \A i \in 1..2 : \A r \in 1..MaxFires :
          (scheduler = "shutdown" /\ job[i].pc \in InUpload /\ job[i].run = r)
              ~> (job[i].pc = "done" /\ job[i].run = r)

\* After the stop, a job is in the part loop of an upload, one part sent.
C11_Witness ==
    /\ scheduler = "shutdown"
    /\ \E i \in Jobs : job[i].pc = "read" /\ job[i].parts # <<>>

\* C12: when create_multipart_upload, upload_part or
\* complete_multipart_upload raises NoCredentialsError, the upload of that
\* file ends with the auth-failure outcome, nothing reaches backup_job's
\* handler, the session is not completed, no further call is made for the
\* file and the job goes on to the next candidate.
C12_AuthFailureContained ==
    \A i \in Jobs :
        LET j == job[i]
            calls == j.calls
        IN  \A p \in DOMAIN calls :
                (calls[p].op \in UploadOps /\ calls[p].res = "NoCredentialsError") =>
                    LET next == calls[p].file + 1
                    IN  /\ \E n \in DOMAIN j.outcomes :
                              /\ j.outcomes[n].file = calls[p].file
                              /\ j.outcomes[n].result = "NoCredentialsError"
                        /\ j.pc # "raised" /\ j.error # "NoCredentialsError"
                        /\ \A c \in completions : c.UploadId # calls[p].UploadId
                        /\ \A q \in DOMAIN calls : q > p => calls[q].file >= next
                        /\ j.idx >= next
                        /\ next <= Len(j.files_to_backup) =>
                              \/ j.idx = next /\ j.pc \in {"loop", "head"}
                              \/ \E q \in DOMAIN calls :
                                    /\ q > p
                                    /\ calls[q].op = "head_object"
                                    /\ calls[q].file = next
                        /\ next > Len(j.files_to_backup) =>
                              j.pc \in {"loop", "done"} /\ j.error = ""

\* complete_multipart_upload raised NoCredentialsError for one file and
\* the job then checked the next one.
C12_Witness ==
    \E i \in Jobs :
        \E p, q \in DOMAIN job[i].calls :
            /\ job[i].calls[p].op = "complete_multipart_upload"
            /\ job[i].calls[p].res = "NoCredentialsError"
            /\ q > p
            /\ job[i].calls[q].op = "head_object"
            /\ job[i].calls[q].file = job[i].calls[p].file + 1

\* C13: when the file cannot be opened after create_multipart_upload
\* succeeded (the upload ended with neither an upload_part nor a
\* completion call), the upload has the source-unavailable outcome, the
\* job makes no other store call for the file (no abort), and the session
\* stays open, without parts and without a completion.
C13_SourceUnavailable ==
    \A i \in Jobs :
        LET j == job[i]
            calls == j.calls
        IN  /\ \A p \in DOMAIN calls : calls[p].op \in UploadOps \cup {"head_object"}
            /\ \A p \in DOMAIN calls :
                  (/\ calls[p].op = "create_multipart_upload"
                   /\ calls[p].res = "ok"
                   /\ \E n \in DOMAIN j.outcomes : j.outcomes[n].file = calls[p].file
                   /\ \A q \in DOMAIN calls :
                         calls[q].file = calls[p].file =>
                             calls[q].op \notin {"upload_part", "complete_multipart_upload"})
                  => /\ \A n \in DOMAIN j.outcomes :
                           j.outcomes[n].file = calls[p].file =>
                               j.outcomes[n].result = "FileNotFoundError"
                     /\ \A q \in DOMAIN calls : q > p => calls[q].file # calls[p].file
                     /\ uploads[calls[p].UploadId].open
                     /\ uploads[calls[p].UploadId].Parts = <<>>
                     /\ \A c \in completions : c.UploadId # calls[p].UploadId
                     /\ j.pc # "raised"

\* A file vanished between create_multipart_upload and open: its session
\* is open in the store and the job has gone on.
C13_Witness ==
    \E i \in Jobs :
        \E n \in DOMAIN job[i].outcomes :
            /\ job[i].outcomes[n].result = "FileNotFoundError"
            /\ \E p \in DOMAIN job[i].calls :
                  /\ job[i].calls[p].op = "create_multipart_upload"
                  /\ job[i].calls[p].file = job[i].outcomes[n].file
                  /\ uploads[job[i].calls[p].UploadId].open
            /\ job[i].pc = "done"

\* C14: a head_object call that raised an error other than 'not found'
\* counts as 'absent': the file is not skipped and
\* upload_large_file_to_s3 is entered for it.
C14_CheckFailureMeansAbsent ==
    \A i \in Jobs :
        LET j == job[i]
            calls == j.calls
        IN  \A p \in DOMAIN calls :
                (calls[p].op = "head_object" /\ calls[p].res \notin {"200", "404"}) =>
                    /\ \A n \in DOMAIN j.outcomes :
                          j.outcomes[n].file = calls[p].file =>
                              j.outcomes[n].result \in UploadEndings
                    /\ \/ j.idx = calls[p].file /\ j.pc \in InUpload
                       \/ \E n \in DOMAIN j.outcomes : j.outcomes[n].file = calls[p].file

\* head_object raised for a key at which an object exists, and the job
\* initiated another upload to that key.
C14_Witness ==
    \E i \in Jobs :
        \E p, q \in DOMAIN job[i].calls :
            /\ job[i].calls[p].op = "head_object"
            /\ job[i].calls[p].res \in {"ClientError", "NoCredentialsError"}
            /\ q > p
            /\ job[i].calls[q].op = "create_multipart_upload"
            /\ job[i].calls[q].res = "ok"
            /\ job[i].calls[q].file = job[i].calls[p].file
            /\ \E c \in completions :
                  /\ c.Key = job[i].calls[p].Key
                  /\ c.UploadId < job[i].calls[q].UploadId

\* C15: in a run, the calls are made file by file; the first call of a
\* file is head_object on that file's key, made once, after every earlier
\* file of the run has got its outcome, and every upload call of the file
\* comes after it and carries the key that was checked.
C15_CheckPrecedesUpload ==
    \A i \in Jobs :
        LET j == job[i]
            calls == j.calls
        IN  \A p \in DOMAIN calls :
                /\ \A q \in DOMAIN calls : q < p => calls[q].file <= calls[p].file
                /\ calls[p].op = "head_object" =>
                      /\ \A q \in DOMAIN calls : q < p => calls[q].file < calls[p].file
                      /\ \A f \in 1..(calls[p].file - 1) :
                            \E n \in DOMAIN j.outcomes : j.outcomes[n].file = f
                /\ calls[p].op \in UploadOps =>
                      \E q \in DOMAIN calls :
                          /\ q < p
                          /\ calls[q].op = "head_object"
                          /\ calls[q].file = calls[p].file
                          /\ calls[q].Key = calls[p].Key
                          /\ calls[q].res # "200"

\* A run that checked and uploaded one file, then checked and began to
\* upload the next.
C15_Witness ==
    \E i \in Jobs :
        \E p, q \in DOMAIN job[i].calls :
            /\ job[i].calls[p].op = "complete_multipart_upload"
            /\ job[i].calls[p].file = 1
            /\ q > p + 1
            /\ job[i].calls[p + 1].op = "head_object"
            /\ job[i].calls[p + 1].file = 2
            /\ job[i].calls[q].op = "upload_part"
            /\ job[i].calls[q].file = 2

\* The successful create_multipart_upload call a job made for the file of
\* call p, before p.
OwnCreate(calls, p) ==
    {q \in 1..(p - 1) : /\ calls[q].op = "create_multipart_upload"
                        /\ calls[q].res = "ok"
                        /\ calls[q].file = calls[p].file}

\* C16: an upload calls create_multipart_upload once, before any part;
\* every upload_part and the completion carry the id that call returned,
\* an id of a session of that key which no other upload uses; the
\* completion is called at most once, after upload_part succeeded for all
\* chunks of the file, and entry n of its list holds the tag the store
\* returned for part n of that session.
C16_SessionOwnership ==
    \A i \in Jobs :
        LET calls == job[i].calls
        IN  \A p \in DOMAIN calls :
                /\ calls[p].op = "create_multipart_upload" =>
                      \A q \in DOMAIN calls :
                          (q # p /\ calls[q].file = calls[p].file) =>
                              /\ calls[q].op # "create_multipart_upload"
                              /\ q < p => calls[q].op = "head_object"
                /\ calls[p].op \in {"upload_part", "complete_multipart_upload"} =>
                      /\ \E q \in OwnCreate(calls, p) :
                            calls[q].UploadId = calls[p].UploadId
                      /\ calls[p].UploadId \in DOMAIN uploads
                      /\ uploads[calls[p].UploadId].Bucket = calls[p].Bucket
                      /\ uploads[calls[p].UploadId].Key = calls[p].Key
                      /\ \A q \in DOMAIN calls :
                            calls[q].file # calls[p].file =>
                                calls[q].UploadId # calls[p].UploadId
                      /\ \A k \in Jobs \ {i} : \A q \in DOMAIN job[k].calls :
                            job[k].calls[q].UploadId # calls[p].UploadId
                /\ calls[p].op = "complete_multipart_upload" =>
                      LET sent == PartCallsOf(calls, p)
                      IN  /\ \A q \in DOMAIN calls :
                                (q # p /\ calls[q].file = calls[p].file) =>
                                    /\ calls[q].op # "complete_multipart_upload"
                                    /\ q < p
                          /\ \A q \in sent : calls[q].res = "ok"
                          /\ \/ sent = {} /\ calls[p].FileSize = 0
                             \/ \E q \in sent :
                                   calls[q].Offset + calls[q].Body = calls[p].FileSize
                          /\ Len(calls[p].Parts) = Cardinality(sent)
                          /\ \A q \in sent :
                                LET n == calls[q].PartNumber
                                IN  /\ n \in DOMAIN calls[p].Parts
                                    /\ calls[p].Parts[n].PartNumber = n
                                    /\ calls[p].Parts[n].ETag =
                                          ETagOf(calls[p].UploadId, n, calls[q].Body)
                                    /\ calls[p].Parts[n].ETag =
                                          uploads[calls[p].UploadId].Parts[n]

\* Two jobs are uploading to the same key at once, each in a session of
\* its own, and both have sent all their parts.
C16_Witness ==
    /\ Len(config) = 2
    /\ job[1].pc = "complete" /\ job[2].pc = "complete"
    /\ job[1].fn = job[2].fn
    /\ job[1].upload_id # job[2].upload_id
    /\ job[1].parts # <<>> /\ job[2].parts # <<>>

\* The date component of the key prefix/YYYY-MM-DD/filename.
DateIn(prefix, key) == SubSeq(key, Len(prefix) + 2, Len(prefix) + 11)

\* C17 as stated: every key of a run carries the date of the day on which
\* the run was fired.
C17_KeysCarryFireDate ==
    \A i \in Jobs :
        \A p \in DOMAIN job[i].calls :
            DateIn(config[i].prefix, job[i].calls[p].Key) =
                ExpectedDates[job[i].fired + 1]

\* C17, amended: a key carries the date of the day on which the
\* processing of its file began; within a run these days never decrease,
\* lie between the day of the fire and today, and are all the day of the
\* fire as long as no midnight has passed since the fire.
C17_KeysCarryFileDate ==
    \A i \in Jobs :
        LET j == job[i]
            calls == j.calls
        IN  \A p \in DOMAIN calls :
                /\ DateIn(config[i].prefix, calls[p].Key) = ExpectedDates[calls[p].day + 1]
                /\ calls[p].file = j.idx => calls[p].day = j.day
                /\ \A q \in DOMAIN calls : q < p => calls[q].day <= calls[p].day
                /\ j.fired <= calls[p].day /\ calls[p].day <= now
                /\ now = j.fired =>
                      DateIn(config[i].prefix, calls[p].Key) = ExpectedDates[j.fired + 1]

\* One run made calls under the dates of two different days.
C17_Witness ==
    \E i \in Jobs :
        \E p, q \in DOMAIN job[i].calls :
            /\ job[i].calls[p].file < job[i].calls[q].file
            /\ DateIn(config[i].prefix, job[i].calls[p].Key) = "2024-02-29"
            /\ DateIn(config[i].prefix, job[i].calls[q].Key) = "2024-03-01"

\* Every candidate of job i that is still in its folder has an object at
\* its key of today, unless a store call of the run failed.
Settled(i) ==
    LET j == job[i]
    IN  (\A p \in DOMAIN j.calls : j.calls[p].res \in {"ok", "200", "404"}) =>
            \A f \in DOMAIN j.files_to_backup :
                j.files_to_backup[f] \in DOMAIN fs[config[i].folder] =>
                    ObjectExists(config[i].s3_bucket_name,
                                 config[i].prefix \o "/" \o ExpectedDates[now + 1]
                                     \o "/" \o j.files_to_backup[f])

\* C18: a file whose key is absent when it is checked is not skipped: a
\* multipart session is initiated for it, also when an earlier session of
\* that key was left unfinished; a file that was uploaded or skipped has
\* an object at its key; and a run fired once the store calls, the clock
\* and the files are no longer disturbed returns with an object at the
\* key of every candidate, unless a store call of that run failed.
C18_FailedUploadRetried ==
    /\ [](\A p \in DOMAIN job[1].calls :
             LET c == job[1].calls[p]
             IN  /\ (c.op = "head_object" /\ c.res = "404") =>
                       /\ \A n \in DOMAIN job[1].outcomes :
                             job[1].outcomes[n].file = c.file =>
                                 job[1].outcomes[n].result \in UploadEndings
                       /\ \/ job[1].idx = c.file /\ job[1].pc \in {"getsize", "create"}
                          \/ \E n \in DOMAIN job[1].outcomes :
                                job[1].outcomes[n].file = c.file
                          \/ \E q \in DOMAIN job[1].calls :
                                /\ q > p
                                /\ job[1].calls[q].op = "create_multipart_upload"
                                /\ job[1].calls[q].file = c.file
                 /\ (/\ c.op = "head_object"
                     /\ \E n \in DOMAIN job[1].outcomes :
                           /\ job[1].outcomes[n].file = c.file
                           /\ job[1].outcomes[n].result \in {"uploaded", "skipped"})
                       => ObjectExists(c.Bucket, c.Key))
    /\ \A r \in 1..MaxFires :
          (job[1].pc = "start" /\ job[1].run = r /\ events = MaxEvents)
              ~> (job[1].pc = "done" /\ job[1].run = r /\ Settled(1))

\* A second run has uploaded a file to a key for which an earlier,
\* failed session is still open.
C18_Witness ==
    /\ job[1].run = 2
    /\ job[1].pc = "done"
    /\ \E p \in DOMAIN job[1].calls :
          /\ job[1].calls[p].op = "complete_multipart_upload"
          /\ job[1].calls[p].res = "ok"
          /\ \E u \in DOMAIN uploads :
                /\ u < job[1].calls[p].UploadId
                /\ uploads[u].Key = job[1].calls[p].Key
                /\ uploads[u].open

\* The number of chunks of part_size bytes needed for S bytes.
CeilParts(S) == (S + part_size - 1) \div part_size

\* C19: when complete_multipart_upload is called for a file opened with S
\* bytes, exactly ceil(S / part_size) upload_part calls were made for it
\* and the parts list has as many entries; for a zero-length file the
\* session was initiated, no upload_part call was made and the parts list
\* handed to complete_multipart_upload is empty.
C19_PartCount ==
    \A i \in Jobs :
        LET calls == job[i].calls
        IN  \A p \in DOMAIN calls :
                calls[p].op = "complete_multipart_upload" =>
                    LET S == calls[p].FileSize
                        sent == PartCallsBefore(calls, p)
                    IN  /\ S >= 0
                        /\ Cardinality(sent) = CeilParts(S)
                        /\ Len(calls[p].Parts) = CeilParts(S)
                        /\ \A q \in sent : calls[q].res = "ok"
                        /\ \E q \in 1..(p - 1) :
                              /\ calls[q].op = "create_multipart_upload"
                              /\ calls[q].file = calls[p].file
                              /\ calls[q].res = "ok"
                              /\ calls[q].UploadId = calls[p].UploadId
                        /\ S = 0 => (sent = {} /\ calls[p].Parts = <<>>)

\* complete_multipart_upload was called for a zero-length file whose
\* session had been initiated.
C19_Witness ==
    \E i \in Jobs :
        \E p \in DOMAIN job[i].calls :
            /\ job[i].calls[p].op = "complete_multipart_upload"
            /\ job[i].calls[p].FileSize = 0
            /\ job[i].calls[p].Parts = <<>>
            /\ \E q \in 1..(p - 1) :
                  /\ job[i].calls[q].op = "create_multipart_upload"
                  /\ job[i].calls[q].res = "ok"
                  /\ job[i].calls[q].file = job[i].calls[p].file
====
